---- MODULE Spec2Model ----
(***************************************************************************)
(* Model of app/services/agent_service.py: the AgentService that runs the  *)
(* Pharo refactoring pipeline (Reviewer, InitialWriter, ValidationLoop of  *)
(* Validator and Refiner, Release) under one asyncio.Lock.                 *)
(*                                                                         *)
(* Callers are coroutines on one event loop: code between two awaits is    *)
(* atomic, so every action below runs from one suspension point to the     *)
(* next.  A stage (one Agent) is one oracle conversation; it is modelled   *)
(* as one step that either raises or yields its output.  The composition   *)
(* semantics of SequentialAgent and LoopAgent are those of the agent       *)
(* framework the service instantiates in _create_pipeline.                 *)
(***************************************************************************)
EXTENDS Integers, Sequences, FiniteSets, TLC

\* ------------------------------------------------------------------ bounds
NumCallers == 2
MaxIterations == 3
LoopCap == 4
MaxCodeLen == 3
MaxClassNameLen == 2

\* every caller is one call of refactor_method on the one service instance
Callers == 1..NumCallers

\* settings.max_validation_iterations is an unconstrained int (config.py:30)
MaxIterationValues == (0 - 1)..MaxIterations

\* default of settings.max_validation_iterations
DefaultMaxIterations == 3

\* ------------------------------------------------------- request arguments
\* the request each caller submits
TargetOf(c) == IF c % 2 = 1 THEN <<"Calculator", "sum:with:">> ELSE <<"Point", "x">>

\* ---------------------------------------------------------------- errors
NoError == [kind |-> "none", msg |-> ""]
NotFound == [kind |-> "Exception", msg |-> "NotFound"]
OracleError == [kind |-> "Exception", msg |-> "StageExecutionError"]
MissingContext == [kind |-> "Exception", msg |-> "MissingContext"]
ConstructionError == [kind |-> "Exception", msg |-> "ConstructionError"]
CancelledError == [kind |-> "BaseException", msg |-> ""]

\* str(e)
Str(e) == e.msg

\* a handler written for one error class only
CaughtByHandler_OnlyNotFound(e) == e.kind = "Exception" /\ e.msg = "NotFound"

\* except Exception as e
CaughtByHandler(e) == e.kind = "Exception"

\* ------------------------------------------------------------- blackboard
NoText == <<>>
EmptyState == [k \in {} |-> NoText]

Merge(state, delta) ==
    [k \in (DOMAIN state) \cup (DOMAIN delta) |->
        IF k \in DOMAIN delta THEN delta[k] ELSE state[k]]

\* ------------------------------------------------------------ the agents
ReviewerAgent ==
    [name |-> "ReviewerAgent", reads |-> {},
     tools |-> {"toolset", "save_context"}, output_key |-> "code_review"]

InitialWriterAgent ==
    [name |-> "InitialWriterAgent", reads |-> {"code_review"},
     tools |-> {}, output_key |-> "refactored_code"]

\* a Validator that is given the exit tool
ValidatorAgent_CanExit ==
    [name |-> "ValidatorAgent", reads |-> {"refactored_code"},
     tools |-> {"toolset", "exit_validation_loop"},
     output_key |-> "validation_result"]

\* a Validator whose output_key is the code
ValidatorAgent_WritesCode ==
    [name |-> "ValidatorAgent", reads |-> {"refactored_code"},
     tools |-> {"toolset"}, output_key |-> "refactored_code"]

ValidatorAgent ==
    [name |-> "ValidatorAgent", reads |-> {"refactored_code"},
     tools |-> {"toolset"}, output_key |-> "validation_result"]

RefinerAgent ==
    [name |-> "RefinerAgent", reads |-> {"refactored_code", "validation_result"},
     tools |-> {"exit_validation_loop"}, output_key |-> "refactored_code"]

ReleaseAgent ==
    [name |-> "ReleaseAgent", reads |-> {"class_name", "refactored_code"},
     tools |-> {"toolset", "generate_compilation_script"},
     output_key |-> "release_status"]

AgentNames == {"ReviewerAgent", "InitialWriterAgent", "ValidatorAgent",
               "RefinerAgent", "ReleaseAgent"}

\* LoopAgent(sub_agents=[validator_agent, refiner_agent], ...)
LoopSubAgents == <<"ValidatorAgent", "RefinerAgent">>

\* a pipeline that releases before validating
PipelineSubAgents_ReleaseBeforeLoop ==
    <<"ReviewerAgent", "InitialWriterAgent", "ReleaseAgent", "ValidationLoop">>

\* SequentialAgent(sub_agents=[reviewer, initial_writer, validation_loop, release])
PipelineSubAgents ==
    <<"ReviewerAgent", "InitialWriterAgent", "ValidationLoop", "ReleaseAgent">>

\* ------------------------------------------------------------------ state
VARIABLES
    max_iterations,   \* settings.max_validation_iterations
    locked,           \* self._lock._locked
    waiters,          \* self._lock._waiters: callers suspended in acquire()
    woken,            \* waiters whose future has been given its result
    cancelled,        \* waiters whose task has been cancelled and has not run since
    toolset,          \* self._toolset
    pipeline,         \* self._pipeline
    toolsetBuilds,    \* number of McpToolset objects constructed so far
    pipelineBuilds,   \* number of pipelines built so far
    pc,               \* per caller: "idle", "waiting", "running", "done"
    args,             \* per caller: <<class_name, method_name>> of the call
    pos,              \* per caller: position of its run in the pipeline
    state,            \* per caller: session.state of its run (the blackboard)
    events,           \* per caller: events collected by run_debug
    turn,             \* per caller: the tool calls made in the stage under way
    invoked,          \* per caller: number of invocations of each agent
    failure,          \* per caller: the first error raised in its run, and where
    outcome,          \* per caller: what the last call returned or raised
    tool_call,        \* a call of a tool function: its name and arguments
    tool_context,     \* the tool_context of that call
    tool_result,      \* what that call returned
    request,          \* per caller: its passage through the /refactor handler
    client            \* the example client: one call of refactor_with_retry

vars == <<max_iterations, locked, waiters, woken, cancelled, toolset, pipeline,
          toolsetBuilds, pipelineBuilds, pc, args, pos, state, events, turn, invoked,
          failure,
          outcome, tool_call, tool_context, tool_result, request, client>>

lockVars == <<locked, waiters, woken, cancelled>>
serviceVars == <<toolset, pipeline, toolsetBuilds, pipelineBuilds>>
runVars == <<pos, state, events, turn, invoked>>
toolVars == <<tool_call, tool_context, tool_result>>

NoOutcome == [type |-> "none"]
NoTarget == <<"", "">>

\* position of a run: index into PipelineSubAgents, index into LoopSubAgents,
\* LoopAgent's times_looped, and the state of the loop
StartPos == [sub_idx |-> 1, loop_idx |-> 0, times_looped |-> 0,
             loop |-> "NOT_STARTED", escalate |-> FALSE]

NoInvocations == [a \in AgentNames |-> 0]

NoFailure == [at |-> "none", error |-> NoError]

\* a tool_context: whether the function is handed one that has the
\* attribute it looks for, whether the calling agent is a sub-agent of the
\* ValidationLoop, and the session.state and actions.escalate behind it
ToolContext(usable, in_loop, session_state, escalate) ==
    [usable |-> usable, in_loop |-> in_loop, state |-> session_state,
     escalate |-> escalate]

NoToolContext == ToolContext(FALSE, FALSE, EmptyState, FALSE)

ToolCall(tool, class_name, method_name, code, context) ==
    [tool |-> tool, class_name |-> class_name, method_name |-> method_name,
     code |-> code, context |-> context]

NoToolCall == ToolCall("none", <<>>, <<>>, <<>>, NoToolContext)

NotReturned == [returned |-> FALSE, value |-> <<>>]

\* a request to POST /api/v1/refactor: whether the handler has made its
\* busy check, what is_busy() returned, and the status of the answer (0
\* while there is none)
Request(checked, busy, status) ==
    [checked |-> checked, busy |-> busy, status |-> status]

NoRequest == Request(FALSE, FALSE, 0)
Returned(value) == [returned |-> TRUE, value |-> value]

\* no tool has been called in the stage under way
NoTurn == [agent |-> "none", writes |-> [k \in {} |-> <<>>], escalate |-> FALSE]

\* the example client at a point of refactor_with_retry: where it is, its
\* max_retries, the value of the loop variable, the calls it has made to
\* requests.post and time.sleep in order, what it returned or raised
Client(at, max_retries, attempt, calls, result, raised) ==
    [pc |-> at, max_retries |-> max_retries, attempt |-> attempt,
     calls |-> calls, result |-> result, raised |-> raised]

\* no call of refactor_with_retry has been made
NotCalled == Client("not_called", 0, 0, <<>>, [result |-> ""], "none")

Init ==
    /\ max_iterations \in MaxIterationValues
    /\ locked = FALSE
    /\ waiters = <<>>
    /\ woken = {}
    /\ cancelled = {}
    /\ toolset = "None"
    /\ pipeline = "None"
    /\ toolsetBuilds = 0
    /\ pipelineBuilds = 0
    /\ pc = [c \in Callers |-> "idle"]
    /\ args = [c \in Callers |-> NoTarget]
    /\ pos = [c \in Callers |-> StartPos]
    /\ state = [c \in Callers |-> EmptyState]
    /\ events = [c \in Callers |-> <<>>]
    /\ turn = [c \in Callers |-> NoTurn]
    /\ invoked = [c \in Callers |-> NoInvocations]
    /\ failure = [c \in Callers |-> NoFailure]
    /\ outcome = [c \in Callers |-> NoOutcome]
    /\ tool_call = NoToolCall
    /\ tool_context = NoToolContext
    /\ tool_result = NotReturned
    /\ request = [c \in Callers |-> NoRequest]
    /\ client = NotCalled

\* a busy check that never reports busy
is_busy_Never == FALSE

\* ------------------------------------------------------------------- lock
\* a busy test that also counts callers queued on the lock
is_busy_OrQueued == locked \/ waiters # <<>>

\* AgentService.is_busy
is_busy == locked

\* an acquire that admits a caller without looking at the lock
CanAcquireNow_Unchecked == TRUE

\* asyncio.Lock.acquire, the test for taking the lock without suspending:
\* not self._locked and all(w.cancelled() for w in self._waiters); the
\* future of a waiter is cancelled when its task was cancelled before the
\* future had a result
CanAcquireNow ==
    /\ ~locked
    /\ \A i \in 1..Len(waiters) : waiters[i] \in cancelled \ woken

\* the queue without caller c (self._waiters.remove(fut))
RemoveWaiter(ws, c) == SelectSeq(ws, LAMBDA w : w # c)

\* a release that wakes nobody
WakeUpFirst_Nobody(ws, done) == done

\* asyncio.Lock._wake_up_first: the futures with a result after it; the
\* first waiter gets one unless its future is done already (fut.done():
\* it has a result, or it was cancelled)
WakeUpFirst(ws, done) ==
    IF ws = <<>> \/ Head(ws) \in cancelled THEN done ELSE done \cup {Head(ws)}

\* a release placed after the block instead of in __aexit__: an exception
\* leaving the block skips it
LockedAfterExit_SkippedOnRaise(result) == result.type = "raised"

\* "async with": __aexit__ releases the lock whatever the block returned or
\* raised (asyncio.Lock.release: self._locked = False)
LockedAfterExit(result) == FALSE

\* ------------------------------------------------------ pipeline position
\* a loop test that admits one iteration too many
LoopCondition_OffByOne(times_looped) ==
    (max_iterations = 0) \/ (times_looped <= max_iterations)

\* LoopAgent: while not self.max_iterations or times_looped < self.max_iterations
LoopCondition(times_looped) ==
    (max_iterations = 0) \/ (times_looped < max_iterations)

\* the agent a position designates
CurrentAgent(p) ==
    IF p.sub_idx > Len(PipelineSubAgents) THEN "none"
    ELSE IF PipelineSubAgents[p.sub_idx] = "ValidationLoop"
         THEN LoopSubAgents[p.loop_idx]
         ELSE PipelineSubAgents[p.sub_idx]

\* SequentialAgent moves to sub-agent i; a LoopAgent whose condition is
\* false at entry returns at once
EnterSubAgent(p, i) ==
    IF i <= Len(PipelineSubAgents) /\ PipelineSubAgents[i] = "ValidationLoop"
    THEN IF LoopCondition(0)
         THEN [sub_idx |-> i, loop_idx |-> 1, times_looped |-> 0,
               loop |-> "ITERATING", escalate |-> FALSE]
         ELSE [sub_idx |-> i + 1, loop_idx |-> 0, times_looped |-> 0,
               loop |-> "CAPPED", escalate |-> FALSE]
    ELSE [p EXCEPT !.sub_idx = i, !.loop_idx = 0]

\* a loop that never looks at actions.escalate
LoopAdvance_IgnoresEscalate(p, esc) ==
    IF p.loop_idx < Len(LoopSubAgents)
    THEN [p EXCEPT !.loop_idx = p.loop_idx + 1]
    ELSE IF LoopCondition(p.times_looped + 1)
    THEN [p EXCEPT !.loop_idx = 1, !.times_looped = p.times_looped + 1]
    ELSE [p EXCEPT !.sub_idx = p.sub_idx + 1, !.loop_idx = 0,
                   !.times_looped = p.times_looped + 1, !.loop = "CAPPED"]

\* LoopAgent after one of its sub-agents has finished; esc tells whether an
\* event of that sub-agent carried actions.escalate
LoopAdvance(p, esc) ==
    IF esc
    THEN [p EXCEPT !.sub_idx = p.sub_idx + 1, !.loop_idx = 0,
                   !.loop = "EXITED", !.escalate = TRUE]
    ELSE IF p.loop_idx < Len(LoopSubAgents)
    THEN [p EXCEPT !.loop_idx = p.loop_idx + 1]
    ELSE IF LoopCondition(p.times_looped + 1)
    THEN [p EXCEPT !.loop_idx = 1, !.times_looped = p.times_looped + 1]
    ELSE [p EXCEPT !.sub_idx = p.sub_idx + 1, !.loop_idx = 0,
                   !.times_looped = p.times_looped + 1, !.loop = "CAPPED"]

\* the position after the current agent has finished without raising
Advance(p, esc) ==
    IF PipelineSubAgents[p.sub_idx] = "ValidationLoop"
    THEN LoopAdvance(p, esc)
    ELSE EnterSubAgent(p, p.sub_idx + 1)

PipelineDone(p) == p.sub_idx > Len(PipelineSubAgents)

\* InMemoryRunner.run_debug: of the events the run produced and the session
\* state it ended with, the caller is handed the list of events
run_debug(collected_events, session_state) == collected_events

\* ------------------------------------------------- results of a call
\* the dict returned on success (agent_service.py:303-308)
Success(target, response) ==
    [type |-> "returned", success |-> TRUE, class_name |-> target[1],
     method_name |-> target[2], result |-> response, error |-> ""]

\* the dict returned by the handler (agent_service.py:310-316)
Failure(target, e) ==
    [type |-> "returned", success |-> FALSE, class_name |-> target[1],
     method_name |-> target[2], result |-> <<>>, error |-> Str(e)]

\* an exception that leaves refactor_method
Raised(target, e) ==
    [type |-> "raised", success |-> FALSE, class_name |-> target[1],
     method_name |-> target[2], result |-> <<>>, error |-> Str(e)]

\* try / except Exception as e
HandleError(target, e) ==
    IF CaughtByHandler(e) THEN Failure(target, e) ELSE Raised(target, e)

\* ----------------------------------------------------- oracle responses
\* what one conversation of an agent with its oracle yields: an error, or
\* the tool effects and the final text
Response(writes, text, escalate) ==
    [raise |-> NoError, writes |-> writes, text |-> text, escalate |-> escalate]

Raise(e) ==
    [raise |-> e, writes |-> EmptyState, text |-> NoText, escalate |-> FALSE]

StartsWith(body, token) == Len(body) >= 1 /\ body[1] = token

\* a save_context that records the class only
save_context_OnlyClass(class_name, method_name) ==
    [k \in {"class_name"} |-> class_name]

\* AgentService.save_context with a usable tool_context
save_context(class_name, method_name) ==
    [k \in {"class_name", "method_name"} |->
        IF k = "class_name" THEN class_name ELSE method_name]

\* an exit signal that is raised even without a tool_context
exit_validation_loop_Unguarded(has_tool_context, escalate) == TRUE

\* AgentService.exit_validation_loop: the value of actions.escalate afterwards
exit_validation_loop(has_tool_context, escalate) ==
    IF has_tool_context THEN TRUE ELSE escalate

\* the outputs the Validator instruction asks for
Verdicts == {<<"APPROVED">>, <<"APPROVED", "with remarks">>,
             <<"NEEDS IMPROVEMENT", "feedback">>}

\* errors a stage can raise: a failure of the oracle or of a tool, the
\* remote method not being found, and cancellation of the awaiting task
StageErrors(agent) ==
    {OracleError, CancelledError}
    \cup (IF agent.name = "ReviewerAgent" THEN {NotFound} ELSE {})

Failures(agent) == {Raise(e) : e \in StageErrors(agent)}

ReviewerResponses(target) ==
    {Response(save_context(target[1], target[2]), <<"review">>, FALSE)}
    \cup Failures(ReviewerAgent)

InitialWriterResponses ==
    {Response(EmptyState, <<"code">>, FALSE)} \cup Failures(InitialWriterAgent)

ValidatorResponses ==
    {Response(EmptyState, v, FALSE) : v \in Verdicts} \cup Failures(ValidatorAgent)

\* the Refiner instruction: on APPROVED call exit_validation_loop and output
\* no code, otherwise output the improved code
RefinerReply(validation_result) ==
    IF StartsWith(validation_result, "APPROVED")
    THEN Response(EmptyState, NoText, exit_validation_loop(TRUE, FALSE))
    ELSE Response(EmptyState, <<"code">>, FALSE)

RefinerResponses(validation_result) ==
    {RefinerReply(validation_result)} \cup Failures(RefinerAgent)

\* the Release instruction: RELEASED on a successful eval, else RELEASE FAILED
ReleaseReply(method_name, eval_ok) ==
    IF eval_ok
    THEN Response(EmptyState, <<"RELEASED", method_name>>, FALSE)
    ELSE Response(EmptyState, <<"RELEASE FAILED", "Error">>, FALSE)

ReleaseResponses(method_name) ==
    {ReleaseReply(method_name, ok) : ok \in BOOLEAN} \cup Failures(ReleaseAgent)

\* the text an agent stored under its output key, tagged with its producer
Text(agent, n, body) == [by |-> agent.name, n |-> n, body |-> body]

\* an output_key that is written even when the agent produced no text
OutputDelta_AlwaysWrites(agent, n, body) ==
    [k \in {agent.output_key} |-> Text(agent, n, body)]

\* output_key: the final text of the agent, when there is one, is saved
OutputDelta(agent, n, body) ==
    IF body = NoText THEN EmptyState
    ELSE [k \in {agent.output_key} |-> Text(agent, n, body)]

\* a pipeline that swallows a stage's Exception and goes on
AbortsRun_OnlyCancellation(err) == err # NoError /\ err.kind = "BaseException"

\* an error raised by a sub-agent is not caught by SequentialAgent or
\* LoopAgent: it ends run_debug
AbortsRun(err) == err # NoError

\* ---------------------------------------------------------------- actions
\* leaving "async with self._lock": release, and the result of the call;
\* the runner and its session are dropped with the call's frame
Finish(c, result, ws, done) ==
    /\ pc' = [pc EXCEPT ![c] = "done"]
    /\ pos' = [pos EXCEPT ![c] = StartPos]
    /\ state' = [state EXCEPT ![c] = EmptyState]
    /\ events' = [events EXCEPT ![c] = <<>>]
    /\ turn' = [turn EXCEPT ![c] = NoTurn]
    /\ outcome' = [outcome EXCEPT ![c] = result]
    /\ locked' = LockedAfterExit(result)
    /\ waiters' = ws
    /\ woken' = WakeUpFirst(ws, done)
    /\ cancelled' = cancelled

\* what the state_delta of the events evs write to a session's state,
\* applied in order (the writes a tool makes directly are not among them)
StateDeltas(evs) ==
    LET RECURSIVE Apply(_)
        Apply(n) == IF n = 0 THEN EmptyState
                    ELSE Merge(Apply(n - 1), evs[n].state_delta)
    IN Apply(Len(evs))

\* a runner that is kept across calls: the session of an earlier successful
\* run is found again
NewSession_KeptRunner(c) ==
    IF \E d \in Callers \ {c} : outcome[d].type = "returned" /\ outcome[d].success
    THEN StateDeltas(outcome[CHOOSE d \in Callers \ {c} :
                               outcome[d].type = "returned" /\ outcome[d].success].result)
    ELSE EmptyState

\* InMemoryRunner(agent=pipeline) is created in every call: run_debug finds
\* no session and creates one, whose state is empty
NewSession(c) == EmptyState

\* a service that takes its toolset for missing whenever it is asked
ToolsetMissing_Always == TRUE

\* _init_toolset: "if self._toolset is None"
ToolsetMissing == toolset = "None"

\* get_pipeline: "if self._pipeline is None"
PipelineMissing == pipeline = "None"

\* get_pipeline() reaches McpToolset(...) and the constructor returns
ConstructsToolset(built) ==
    PipelineMissing /\ ToolsetMissing /\ built # "toolset_error"

\* the outcomes of get_pipeline(): the pipeline is built once; building it
\* can fail in McpToolset(...) or, after the toolset exists, in an agent
ConstructionOutcomes ==
    IF ~PipelineMissing THEN {"ok"}
    ELSE IF ~ToolsetMissing THEN {"ok", "agent_error"}
    ELSE {"ok", "toolset_error", "agent_error"}

\* AgentService.get_pipeline with the outcome built: what it leaves in
\* self._toolset and self._pipeline
get_pipeline(built) ==
    /\ toolset' = IF ConstructsToolset(built) THEN "McpToolset" ELSE toolset
    /\ toolsetBuilds' = IF ConstructsToolset(built)
                        THEN toolsetBuilds + 1 ELSE toolsetBuilds
    /\ pipeline' = IF built = "ok" THEN "SequentialAgent" ELSE pipeline
    /\ pipelineBuilds' = IF PipelineMissing /\ built = "ok"
                         THEN pipelineBuilds + 1 ELSE pipelineBuilds

\* the body of refactor_method from the acquisition of the lock to its
\* first suspension point: get_pipeline(), InMemoryRunner, a new session
EnterRun(c, target, ws, done) ==
    \E built \in ConstructionOutcomes :
        /\ get_pipeline(built)
        /\ invoked' = [invoked EXCEPT ![c] = NoInvocations]
        /\ failure' = [failure EXCEPT ![c] =
                          IF built = "ok" THEN NoFailure
                          ELSE [at |-> "get_pipeline", error |-> ConstructionError]]
        /\ IF built = "ok"
           THEN /\ pc' = [pc EXCEPT ![c] = "running"]
                /\ pos' = [pos EXCEPT ![c] = EnterSubAgent(StartPos, 1)]
                /\ state' = [state EXCEPT ![c] = NewSession(c)]
                /\ events' = [events EXCEPT ![c] = <<>>]
                /\ turn' = [turn EXCEPT ![c] = NoTurn]
                /\ outcome' = [outcome EXCEPT ![c] = NoOutcome]
                /\ locked' = TRUE
                /\ waiters' = ws
                /\ woken' = done
                /\ cancelled' = cancelled
           ELSE Finish(c, HandleError(target, ConstructionError), ws, done)

\* refactor_method is called: "async with self._lock" either takes the lock
\* at once or suspends the caller in the queue of waiters
Call(c) ==
    /\ pc[c] = "idle"
    /\ LET target == TargetOf(c) IN
        /\ args' = [args EXCEPT ![c] = target]
        /\ IF CanAcquireNow
           THEN EnterRun(c, target, waiters, woken)
           ELSE /\ pc' = [pc EXCEPT ![c] = "waiting"]
                /\ outcome' = [outcome EXCEPT ![c] = NoOutcome]
                /\ waiters' = Append(waiters, c)
                /\ UNCHANGED <<locked, woken, cancelled, serviceVars, runVars, failure>>
    /\ UNCHANGED <<max_iterations, toolVars>>

\* get_pipeline() is called from outside refactor_method: it is a public
\* method and takes no lock; an exception it raises goes to that caller
GetPipeline ==
    /\ \E built \in ConstructionOutcomes : get_pipeline(built)
    /\ UNCHANGED <<max_iterations, lockVars, pc, args, runVars, failure, outcome,
                   toolVars>>

\* the task of a caller that waits in acquire() is cancelled: its future is
\* cancelled if it has no result yet, and the task is scheduled to run
Cancel(c) ==
    /\ pc[c] = "waiting"
    /\ c \notin cancelled
    /\ cancelled' = cancelled \cup {c}
    /\ UNCHANGED <<max_iterations, locked, waiters, woken, serviceVars, pc, args,
                   runVars, failure, outcome, toolVars>>

\* the cancelled task runs: "await fut" raises CancelledError, the waiter
\* leaves the queue, the next waiter is woken if the lock is free, and the
\* error leaves refactor_method, which never entered its block
AcquireCancelled(c) ==
    /\ pc[c] = "waiting"
    /\ c \in cancelled
    /\ LET ws == RemoveWaiter(waiters, c) IN
        /\ waiters' = ws
        /\ woken' = IF locked THEN woken \ {c} ELSE WakeUpFirst(ws, woken \ {c})
    /\ cancelled' = cancelled \ {c}
    /\ pc' = [pc EXCEPT ![c] = "done"]
    /\ outcome' = [outcome EXCEPT ![c] = Raised(args[c], CancelledError)]
    /\ failure' = [failure EXCEPT ![c] = [at |-> "acquire", error |-> CancelledError]]
    /\ UNCHANGED <<max_iterations, locked, serviceVars, args, runVars, toolVars>>

\* a woken waiter resumes in acquire(): it leaves the queue and takes the lock
Resume(c) ==
    /\ pc[c] = "waiting"
    /\ c \in woken
    /\ c \notin cancelled
    /\ EnterRun(c, args[c], RemoveWaiter(waiters, c), woken \ {c})
    /\ UNCHANGED <<max_iterations, args, toolVars>>

\* the oracle of the stage has a tool called before it gives its final
\* text: save_context, which writes session.state, or exit_validation_loop,
\* which sets actions.escalate
CallsTool(resp) ==
    resp.raise = NoError /\ (resp.writes # EmptyState \/ resp.escalate)

\* resp goes on from the tool calls t of the stage: it is the conversation
\* that made them, or the stage is ended by an error after them
Continues(t, resp) ==
    \/ resp.raise # NoError
    \/ resp.writes = t.writes /\ resp.escalate = t.escalate

\* one agent of the pipeline goes on with the oracle's response resp. A stage
\* whose oracle calls a tool of the service takes two steps, with an await
\* between them: the tool runs (save_context writes session.state directly,
\* no state_delta carries its keys); then the stage ends. A stage ends with
\* its final text, saved under output_key by the state_delta of its event,
\* and the composite agents move on, or with an error; the call returns
\* when the pipeline is done or an error is raised. The event recorded for
\* a stage stands for the events the stage emits
AgentStep(c, agent, resp) ==
    /\ pc[c] = "running"
    /\ CurrentAgent(pos[c]) = agent.name
    /\ (max_iterations # 0 \/ pos[c].times_looped < LoopCap)
    /\ LET started == turn[c].agent = agent.name
           n == IF started THEN invoked[c][agent.name]
                ELSE invoked[c][agent.name] + 1
           err == IF started \/ agent.reads \subseteq DOMAIN state[c]
                  THEN resp.raise ELSE MissingContext
           delta == OutputDelta(agent, n, resp.text)
           newEvents == Append(events[c],
                               [author |-> agent.name, state_delta |-> delta,
                                escalate |-> resp.escalate])
           newPos == Advance(pos[c], resp.escalate)
       IN /\ started => Continues(turn[c], resp)
          /\ invoked' = [invoked EXCEPT ![c][agent.name] = n]
          /\ IF ~started /\ err = NoError /\ CallsTool(resp)
             THEN /\ state' = [state EXCEPT ![c] = Merge(state[c], resp.writes)]
                  /\ turn' = [turn EXCEPT ![c] =
                                 [agent |-> agent.name, writes |-> resp.writes,
                                  escalate |-> resp.escalate]]
                  /\ UNCHANGED <<lockVars, pc, outcome, pos, events, failure>>
             ELSE /\ failure' = [failure EXCEPT ![c] =
                                    IF err # NoError /\ failure[c] = NoFailure
                                    THEN [at |-> agent.name, error |-> err]
                                    ELSE failure[c]]
                  /\ IF AbortsRun(err)
                     THEN Finish(c, HandleError(args[c], err), waiters, woken)
                     ELSE IF PipelineDone(newPos)
                     THEN Finish(c, Success(args[c],
                                            run_debug(newEvents,
                                                      Merge(state[c], delta))),
                                 waiters, woken)
                     ELSE /\ pos' = [pos EXCEPT ![c] = newPos]
                          /\ state' = [state EXCEPT ![c] = Merge(state[c], delta)]
                          /\ events' = [events EXCEPT ![c] = newEvents]
                          /\ turn' = [turn EXCEPT ![c] = NoTurn]
                          /\ UNCHANGED <<lockVars, pc, outcome>>
    /\ UNCHANGED <<max_iterations, serviceVars, args, toolVars>>

StepReviewer(c) ==
    \E resp \in ReviewerResponses(args[c]) : AgentStep(c, ReviewerAgent, resp)

StepInitialWriter(c) ==
    \E resp \in InitialWriterResponses : AgentStep(c, InitialWriterAgent, resp)

StepValidator(c) ==
    \E resp \in ValidatorResponses : AgentStep(c, ValidatorAgent, resp)

StepRefiner(c) ==
    /\ "validation_result" \in DOMAIN state[c]
    /\ \E resp \in RefinerResponses(state[c]["validation_result"].body) :
          AgentStep(c, RefinerAgent, resp)

StepRelease(c) ==
    \E resp \in ReleaseResponses(args[c][2]) : AgentStep(c, ReleaseAgent, resp)

\* the callers call refactor_method themselves, not through the router
Next ==
    \E c \in Callers :
        \/ Call(c) /\ UNCHANGED <<request, client>>
        \/ Resume(c) /\ UNCHANGED <<request, client>>
        \/ Cancel(c) /\ UNCHANGED <<request, client>>
        \/ AcquireCancelled(c) /\ UNCHANGED <<request, client>>
        \/ GetPipeline /\ UNCHANGED <<request, client>>
        \/ StepReviewer(c) /\ UNCHANGED <<request, client>>
        \/ StepInitialWriter(c) /\ UNCHANGED <<request, client>>
        \/ StepValidator(c) /\ UNCHANGED <<request, client>>
        \/ StepRefiner(c) /\ UNCHANGED <<request, client>>
        \/ StepRelease(c) /\ UNCHANGED <<request, client>>

Spec == Init /\ [][Next]_vars

\* ------------------------------------------- unconstrained stage oracles
\* the agents of the pipeline
Agents == {ReviewerAgent, InitialWriterAgent, ValidatorAgent, RefinerAgent,
           ReleaseAgent}

AgentByName(name) == CHOOSE a \in Agents : a.name = name

\* what the tools of an agent can write to session.state: save_context is
\* called or not, as the oracle decides
ToolWrites(agent, target) ==
    IF "save_context" \in agent.tools
    THEN {EmptyState, save_context(target[1], target[2])}
    ELSE {EmptyState}

\* whether the oracle calls exit_validation_loop, where it is offered
Escalations(agent) ==
    IF "exit_validation_loop" \in agent.tools THEN BOOLEAN ELSE {FALSE}

\* the final texts of an agent; an oracle can also end without text
FinalTexts(agent, target) ==
    CASE agent.name = "ReviewerAgent" -> {<<"review">>, NoText}
      [] agent.name = "ValidatorAgent" -> Verdicts \cup {NoText}
      [] agent.name = "ReleaseAgent" ->
            {<<"RELEASED", target[2]>>, <<"RELEASE FAILED", "Error">>, NoText}
      [] OTHER -> {<<"code">>, NoText}

\* every response an oracle can give with the tools its agent offers,
\* whether or not it follows the instruction
FreeResponses(agent, target) ==
    {Response(w, t, e) : w \in ToolWrites(agent, target),
                         t \in FinalTexts(agent, target),
                         e \in Escalations(agent)}
    \cup Failures(agent)

\* one agent runs with an oracle that is bound to nothing but its tools
FreeStep(c) ==
    \E agent \in Agents :
        \E resp \in FreeResponses(agent, args[c]) : AgentStep(c, agent, resp)

\* a single run of the pipeline (one call) with unconstrained oracles
OracleCallers == {1}

OracleNext ==
    \E c \in OracleCallers :
        \/ Call(c) /\ UNCHANGED <<request, client>>
        \/ FreeStep(c) /\ UNCHANGED <<request, client>>

OracleSpec == Init /\ [][OracleNext]_vars

\* ------------------------------------------------ the tool functions
\* A str is modelled as a sequence of pieces and stands for their
\* concatenation.  The pieces are single characters, but for the separator
\* that join() puts between the literals, which is one piece: no piece
\* other than Separator holds a comma, so the separator text occurs in a
\* str exactly where the piece does.
Quote == "'"
LF == "\n"
CR == "\r"
FF == "\f"
VT == "\\x0b"
FS == "\\x1c"
GS == "\\x1d"
RS == "\\x1e"
NEL == "\\x85"
LS == "\\u2028"
PS == "\\u2029"
Separator == ", Character cr asString, "

\* the line boundaries of str.splitlines(): line feed, carriage return (and
\* the pair CR LF), vertical tab, form feed, the file, group and record
\* separators, next line, and the Unicode line and paragraph separators
LineTerminators == {LF, CR, VT, FF, FS, GS, RS, NEL, LS, PS}

\* the pieces a code is made of: a character that is neither a quote nor a
\* boundary, the quote, the separator text, and boundaries of each kind
CodeAlphabet == {"x", Quote, Separator, LF, CR, FF, NEL}
ClassNameAlphabet == {"C", LF}

\* the strs of at most n pieces over an alphabet
Strs(alphabet, n) == UNION {[1..k -> alphabet] : k \in 0..n}

\* str.splitlines(): the lines of s without their terminators; "\r\n" is
\* one terminator, and a terminator at the end opens no further line
splitlines(s) ==
    LET RECURSIVE Scan(_, _, _)
        Scan(i, line, lines) ==
            IF i > Len(s)
            THEN IF line = <<>> THEN lines ELSE Append(lines, line)
            ELSE IF s[i] = CR /\ i < Len(s) /\ s[i + 1] = LF
            THEN Scan(i + 2, <<>>, Append(lines, line))
            ELSE IF s[i] \in LineTerminators
            THEN Scan(i + 1, <<>>, Append(lines, line))
            ELSE Scan(i + 1, Append(line, s[i]), lines)
    IN Scan(1, <<>>, <<>>)

\* a replace that leaves the line as it is
replace_Nothing(line, old, new) == line

\* str.replace(old, new) for a one-character old
replace(line, old, new) ==
    LET RECURSIVE Rep(_)
        Rep(i) == IF i > Len(line) THEN <<>>
                  ELSE (IF line[i] = old THEN new ELSE <<line[i]>>) \o Rep(i + 1)
    IN Rep(1)

\* a literal without its enclosing quotes
pharo_line_Unquoted(line) == replace(line, Quote, <<Quote, Quote>>)

\* f"'{line.replace("'", "''")}'": the Pharo string literal of one line
pharo_line(line) == <<Quote>> \o replace(line, Quote, <<Quote, Quote>>) \o <<Quote>>

\* a join that puts nothing between the items
join_Concatenates(sep, items) ==
    LET RECURSIVE Cat(_)
        Cat(i) == IF i > Len(items) THEN <<>> ELSE items[i] \o Cat(i + 1)
    IN Cat(1)

\* sep.join(items)
join(sep, items) ==
    LET RECURSIVE Join(_)
        Join(i) == IF i > Len(items) THEN <<>>
                   ELSE IF i = Len(items) THEN items[i]
                   ELSE items[i] \o <<sep>> \o Join(i + 1)
    IN Join(1)

\* a script generator without the guard for empty code
generate_compilation_script_Unguarded(class_name, code) ==
    LET lines == splitlines(code)
        pharo_lines == [i \in 1..Len(lines) |-> pharo_line(lines[i])]
        code_expression == join(Separator, pharo_lines)
    IN class_name \o <<" compile: (">> \o code_expression \o <<")">>

\* AgentService.generate_compilation_script
generate_compilation_script(class_name, code) ==
    IF code = <<>> THEN <<>>
    ELSE LET lines == splitlines(code)
             pharo_lines == [i \in 1..Len(lines) |-> pharo_line(lines[i])]
             code_expression == join(Separator, pharo_lines)
             full_script == class_name \o <<" compile: (">> \o code_expression
                                       \o <<")">>
         IN full_script

\* ---------------------------------------------- calls of the tool functions
\* session states a tool can find: empty, written by a stage, or holding an
\* earlier target
SessionStates ==
    {EmptyState,
     [k \in {"code_review"} |-> <<"review">>],
     [k \in {"class_name", "method_name", "code_review"} |-> <<"old">>]}

ToolContexts ==
    {ToolContext(u, l, s, e) : u \in BOOLEAN, l \in BOOLEAN,
                               s \in SessionStates, e \in BOOLEAN}

\* the calls of the three tool functions, over bounded arguments
ToolCalls ==
    {ToolCall("generate_compilation_script", c, <<>>, s, NoToolContext) :
        c \in Strs(ClassNameAlphabet, MaxClassNameLen),
        s \in Strs(CodeAlphabet, MaxCodeLen)}
    \cup
    {ToolCall("save_context", <<c>>, <<m>>, <<>>, x) :
        c \in {"Calculator", "Point"}, m \in {"sum:with:", "x"},
        x \in ToolContexts}
    \cup
    {ToolCall("exit_validation_loop", <<>>, <<>>, <<>>, x) : x \in ToolContexts}

\* the service is as constructed, and one tool function is about to be called
ToolInit ==
    /\ max_iterations = DefaultMaxIterations
    /\ locked = FALSE
    /\ waiters = <<>>
    /\ woken = {}
    /\ cancelled = {}
    /\ toolset = "None"
    /\ pipeline = "None"
    /\ toolsetBuilds = 0
    /\ pipelineBuilds = 0
    /\ pc = [c \in Callers |-> "idle"]
    /\ args = [c \in Callers |-> NoTarget]
    /\ pos = [c \in Callers |-> StartPos]
    /\ state = [c \in Callers |-> EmptyState]
    /\ events = [c \in Callers |-> <<>>]
    /\ turn = [c \in Callers |-> NoTurn]
    /\ invoked = [c \in Callers |-> NoInvocations]
    /\ failure = [c \in Callers |-> NoFailure]
    /\ outcome = [c \in Callers |-> NoOutcome]
    /\ tool_call \in ToolCalls
    /\ tool_context = tool_call.context
    /\ tool_result = NotReturned
    /\ request = [c \in Callers |-> NoRequest]
    /\ client = NotCalled

serviceAndRunVars ==
    <<max_iterations, lockVars, serviceVars, pc, args, runVars, failure, outcome,
      request, client>>

GenerateCompilationScript ==
    /\ tool_call.tool = "generate_compilation_script"
    /\ ~tool_result.returned
    /\ tool_result' = Returned(generate_compilation_script(tool_call.class_name,
                                                           tool_call.code))
    /\ UNCHANGED <<tool_call, tool_context, serviceAndRunVars>>

\* AgentService.save_context, with or without a usable tool_context
SaveContext ==
    /\ tool_call.tool = "save_context"
    /\ ~tool_result.returned
    /\ IF tool_context.usable
       THEN /\ tool_context' =
                   [tool_context EXCEPT !.state =
                       Merge(@, save_context(tool_call.class_name,
                                             tool_call.method_name))]
            /\ tool_result' = Returned(<<"Context saved. Class: ">>
                                       \o tool_call.class_name
                                       \o <<", Method: ">>
                                       \o tool_call.method_name)
       ELSE /\ tool_context' = tool_context
            /\ tool_result' =
                   Returned(<<"Error: Could not save context (missing session).">>)
    /\ UNCHANGED <<tool_call, serviceAndRunVars>>

\* AgentService.exit_validation_loop, with or without a usable tool_context
ExitValidationLoop ==
    /\ tool_call.tool = "exit_validation_loop"
    /\ ~tool_result.returned
    /\ tool_context' =
           [tool_context EXCEPT !.escalate =
               exit_validation_loop(tool_context.usable, @)]
    /\ tool_result' =
           IF tool_context.usable
           THEN Returned([status |-> "approved",
                          message |-> "Code validated. Exiting validation loop."])
           ELSE Returned([status |-> "error",
                          message |-> "Failed to exit loop: tool_context missing."])
    /\ UNCHANGED <<tool_call, serviceAndRunVars>>

ToolNext ==
    \/ GenerateCompilationScript
    \/ SaveContext
    \/ ExitValidationLoop

ToolSpec == ToolInit /\ [][ToolNext]_vars

\* ------------------------------------------------ the /refactor handler
HTTP_200_OK == 200
HTTP_500_INTERNAL_SERVER_ERROR == 500
HTTP_503_SERVICE_UNAVAILABLE == 503

\* a handler that reports a failed run as busy
StatusOf_FailureAsBusy(result) ==
    IF result.type # "returned" THEN 0
    ELSE IF result.success THEN HTTP_200_OK ELSE HTTP_503_SERVICE_UNAVAILABLE

\* the answer of the handler once refactor_method has ended: the response
\* model for a success, AgentExecutionError (status 500) for a record with
\* success = false; an exception that is no Exception leaves the handler
\* and no answer is made
StatusOf(result) ==
    IF result.type # "returned" THEN 0
    ELSE IF result.success THEN HTTP_200_OK ELSE HTTP_500_INTERNAL_SERVER_ERROR

\* the handler, from its start to the first suspension: the busy check and
\* then, with no await between, the call of refactor_method up to the
\* acquisition of the lock and the first await of the run
HandleRequest(c) ==
    /\ pc[c] = "idle"
    /\ UNCHANGED client
    /\ IF is_busy
       THEN /\ request' = [request EXCEPT
                   ![c] = Request(TRUE, TRUE, HTTP_503_SERVICE_UNAVAILABLE)]
            /\ pc' = [pc EXCEPT ![c] = "rejected"]
            /\ UNCHANGED <<max_iterations, lockVars, serviceVars, args, runVars,
                           failure, outcome, toolVars>>
       ELSE /\ Call(c)
            /\ request' = [request EXCEPT
                   ![c] = Request(TRUE, FALSE,
                                  IF pc'[c] = "done" THEN StatusOf(outcome'[c])
                                  ELSE 0)]

\* a step of the service on behalf of request c; when it ends the call of
\* refactor_method, the handler goes on to its answer without an await
Answering(c) ==
    /\ request' = [request EXCEPT
           ![c].status = IF pc'[c] = "done" THEN StatusOf(outcome'[c]) ELSE @]
    /\ UNCHANGED client

\* every caller is a request to the router; no step resumes a waiter, since
\* no request ever waits for the lock
HandlerNext ==
    \E c \in Callers :
        \/ HandleRequest(c)
        \/ StepReviewer(c) /\ Answering(c)
        \/ StepInitialWriter(c) /\ Answering(c)
        \/ StepValidator(c) /\ Answering(c)
        \/ StepRefiner(c) /\ Answering(c)
        \/ StepRelease(c) /\ Answering(c)

HandlerSpec == Init /\ [][HandlerNext]_vars

\* the handler with its scheduling: every request that is sent arrives, and
\* the event loop runs every task that is ready
HandlerFairSpec == HandlerSpec /\ WF_vars(HandlerNext)

\* ------------------------------------------------ scheduling
\* what the event loop does for caller c once it has called: it resumes a
\* woken waiter and it runs the stages of a run, one after the other
Progress(c) ==
    \/ Resume(c) /\ UNCHANGED <<request, client>>
    \/ AcquireCancelled(c) /\ UNCHANGED <<request, client>>
    \/ StepReviewer(c) /\ UNCHANGED <<request, client>>
    \/ StepInitialWriter(c) /\ UNCHANGED <<request, client>>
    \/ StepValidator(c) /\ UNCHANGED <<request, client>>
    \/ StepRefiner(c) /\ UNCHANGED <<request, client>>
    \/ StepRelease(c) /\ UNCHANGED <<request, client>>

\* the event loop runs every task that is ready, and every oracle answers
Fairness == \A c \in Callers : WF_vars(Progress(c))

\* limits with which every run ends: no iteration, one, two
TerminatingIterationValues == {0 - 1, 1, 2}

\* the service with a limit under which the loop, and so every run, ends
LiveInit == Init /\ max_iterations \in TerminatingIterationValues

LiveSpec == LiveInit /\ [][Next]_vars /\ Fairness

\* ------------------------------------------------ the example client
\* the largest max_retries a call of refactor_with_retry is made with
MaxRetries == 3

\* the status codes the server answers with: success, a status that is
\* neither 200 nor an error, two errors that are not 503, and busy
StatusCodes == {200, 201, 404, 500, 503}

\* the bodies of the answers, as the text on the wire: two JSON documents
\* and a text that is not JSON
Bodies == {"{\"result\": \"a\"}", "{\"result\": \"b\"}", "not json"}

\* what a call that has not returned holds as its result
NoJson == [result |-> ""]

\* response.json(): the document that the text of the body denotes, or the
\* JSONDecodeError it raises for a text that is not JSON
json(body) ==
    IF body = "{\"result\": \"a\"}"
    THEN [raised |-> "none", value |-> [result |-> "a"]]
    ELSE IF body = "{\"result\": \"b\"}"
    THEN [raised |-> "none", value |-> [result |-> "b"]]
    ELSE [raised |-> "JSONDecodeError", value |-> NoJson]

\* what requests.post returns: a response with its status code and body
HttpResponse(status_code, body) ==
    [kind |-> "Response", status_code |-> status_code, body |-> body]

\* requests.post raised requests.Timeout instead of returning a response
TimedOut == [kind |-> "Timeout", status_code |-> 0, body |-> ""]

\* requests.post raised another requests.RequestException: no connection
ConnectionFailed == [kind |-> "ConnectionError", status_code |-> 0, body |-> ""]

\* every way one call of requests.post can end
PostOutcomes ==
    {HttpResponse(s, b) : s \in StatusCodes, b \in Bodies}
    \cup {TimedOut, ConnectionFailed}

\* the entries of the record of calls: a request sent with what came back,
\* and a call of time.sleep with its seconds
PostCall(r) == [op |-> "post", response |-> r, seconds |-> 0]
SleepCall(seconds) == [op |-> "sleep", response |-> TimedOut, seconds |-> seconds]

\* response.raise_for_status() raises HTTPError for a client or server error
\* status and does nothing for any other status
raise_for_status(status_code) == 400 <= status_code /\ status_code < 600

\* a backoff that does not grow
wait_time_Constant(attempt) == 1

\* the backoff after a 503: 1 s, 2 s, 4 s, ...
wait_time(attempt) == 2 ^ attempt

\* one pass through the body of the for loop, for the outcome r of the post
Iteration(cl, r) ==
    LET posted == Append(cl.calls, PostCall(r))
        again(slept) == Client("loop", cl.max_retries, cl.attempt + 1, slept,
                               NoJson, "none")
        raise(exception) == Client("raised", cl.max_retries, cl.attempt, posted,
                                   NoJson, exception)
    IN  IF r.kind = "Timeout"
        THEN IF cl.attempt < cl.max_retries - 1
             THEN again(Append(posted, SleepCall(2 ^ cl.attempt)))
             ELSE raise("Timeout")
        ELSE IF r.kind # "Response"
        THEN raise(r.kind)
        ELSE IF r.status_code = 200
        THEN IF json(r.body).raised = "none"
             THEN Client("returned", cl.max_retries, cl.attempt, posted,
                         json(r.body).value, "none")
             ELSE raise(json(r.body).raised)
        ELSE IF r.status_code = 503
        THEN again(Append(posted, SleepCall(wait_time(cl.attempt))))
        ELSE IF raise_for_status(r.status_code)
        THEN raise("HTTPError")
        ELSE again(posted)

\* the loop has an attempt left: the request is sent and its outcome handled
Attempt ==
    /\ client.pc = "loop"
    /\ client.attempt < client.max_retries
    /\ \E r \in PostOutcomes : client' = Iteration(client, r)
    /\ UNCHANGED <<max_iterations, lockVars, serviceVars, pc, args, runVars,
                   failure, outcome, request, toolVars>>

\* the loop has run out: the function raises
Exhausted ==
    /\ client.pc = "loop"
    /\ client.attempt >= client.max_retries
    /\ client' = [client EXCEPT !.pc = "raised", !.raised = "Exception"]
    /\ UNCHANGED <<max_iterations, lockVars, serviceVars, pc, args, runVars,
                   failure, outcome, request, toolVars>>

\* refactor_with_retry called with some max_retries, the service untouched
ClientInit ==
    /\ max_iterations = DefaultMaxIterations
    /\ locked = FALSE
    /\ waiters = <<>>
    /\ woken = {}
    /\ cancelled = {}
    /\ toolset = "None"
    /\ pipeline = "None"
    /\ toolsetBuilds = 0
    /\ pipelineBuilds = 0
    /\ pc = [c \in Callers |-> "idle"]
    /\ args = [c \in Callers |-> NoTarget]
    /\ pos = [c \in Callers |-> StartPos]
    /\ state = [c \in Callers |-> EmptyState]
    /\ events = [c \in Callers |-> <<>>]
    /\ turn = [c \in Callers |-> NoTurn]
    /\ invoked = [c \in Callers |-> NoInvocations]
    /\ failure = [c \in Callers |-> NoFailure]
    /\ outcome = [c \in Callers |-> NoOutcome]
    /\ tool_call = NoToolCall
    /\ tool_context = NoToolContext
    /\ tool_result = NotReturned
    /\ request = [c \in Callers |-> NoRequest]
    /\ client \in {Client("loop", m, 0, <<>>, NoJson, "none") : m \in 0..MaxRetries}

ClientNext ==
    \/ Attempt
    \/ Exhausted

\* every call of requests.post and of time.sleep returns or raises
ClientSpec == ClientInit /\ [][ClientNext]_vars /\ WF_vars(ClientNext)

\* ------------------------------------------------------------------ claims
\* callers inside the locked section of refactor_method
InSection == {c \in Callers : pc[c] = "running"}

\* C1: at most one caller of refactor_method is inside the locked section at
\* any time, whatever the interleaving: while one run is between acquisition
\* and release, no stage of another run executes.
C1_MutualExclusion == Cardinality(InSection) <= 1

\* a run has passed suspension points inside the section while another
\* caller is queued behind the lock
C1_Witness ==
    \E c, d \in Callers :
        /\ pc[c] = "running" /\ invoked[c]["ValidatorAgent"] >= 1
        /\ pc[d] = "waiting"

\* caller c ends, in this step, a call in which it had taken the lock: its
\* call ends, and not by a cancellation while it waited in acquire()
EndsHolding(c) ==
    /\ pc[c] # "done"
    /\ pc'[c] = "done"
    /\ failure'[c].at # "acquire"

\* C2: at the step in which a call of refactor_method that acquired the
\* lock terminates (returning a record or raising) the lock is released, on
\* every exit path.
C2_ReleasedOnExit ==
    [][\A c \in Callers : EndsHolding(c) => ~locked']_vars

\* a call has terminated by an exception the handler did not catch, and the
\* lock is free
C2_Witness ==
    \E c \in Callers :
        pc[c] = "done" /\ outcome[c].type = "raised" /\ ~locked

\* C3: is_busy() is true exactly when some call holds the lock, that is
\* when a run is between its acquisition and its release.
C3_BusyIffHeld == is_busy <=> (InSection # {})

\* the moment after a release: the lock is free, nobody is in the section,
\* and a woken caller still waits to resume
C3_Witness ==
    /\ ~is_busy
    /\ waiters # <<>>
    /\ woken # {}
    /\ \E c \in Callers : pc[c] = "done"

\* a call has terminated after an error was raised inside its run
Failed(c) == pc[c] = "done" /\ failure[c].error # NoError

\* C4 as stated: every error raised inside a run is returned as a record
\* with success = false and error = the message; nothing propagates out of
\* refactor_method.
C4_NothingPropagates ==
    \A c \in Callers :
        /\ pc[c] = "done" => outcome[c].type = "returned"
        /\ Failed(c) => outcome[c] = Failure(args[c], failure[c].error)

\* C4 (amended): an error that is an instance of Exception is caught and
\* returned as a record with success = false and error = its message; an
\* error that is not (task cancellation, a BaseException) propagates out of
\* refactor_method.
C4_ExceptionsCaught ==
    \A c \in Callers :
        Failed(c) =>
            IF failure[c].error.kind = "Exception"
            THEN outcome[c] = Failure(args[c], failure[c].error)
            ELSE outcome[c] = Raised(args[c], failure[c].error)

\* an oracle error in the Refiner stage came back as a failure record
C4_Witness ==
    \E c \in Callers :
        /\ Failed(c)
        /\ failure[c] = [at |-> "RefinerAgent", error |-> OracleError]
        /\ outcome[c].type = "returned"
        /\ ~outcome[c].success
        /\ outcome[c].error = "StageExecutionError"

\* the number of iterations the configured maximum allows
IterationBound == IF max_iterations > 0 THEN max_iterations ELSE 0

\* C5: for every configured max_validation_iterations and every behaviour
\* of the Validator and Refiner oracles, the validation loop runs no more
\* iterations than the configured maximum allows, so that it ends and the
\* Release stage runs.
C5_LoopBounded ==
    \A c \in Callers : invoked[c]["ValidatorAgent"] <= IterationBound

\* the iterations in which the Validator approved, among the events evs
IterationOf(evs, i) ==
    Cardinality({j \in 1..i : evs[j].author = "ValidatorAgent"})

Approved(e) ==
    /\ e.author = "ValidatorAgent"
    /\ StartsWith(e.state_delta["validation_result"].body, "APPROVED")

ApprovedIterations(evs) ==
    {IterationOf(evs, i) : i \in {j \in 1..Len(evs) : Approved(evs[j])}}

ExitSignalled(evs) == \E i \in 1..Len(evs) : evs[i].escalate

LoopEnded(c) == pos[c].loop \in {"EXITED", "CAPPED"}

\* C6: with maximum iteration count N >= 1 and a Validator that answers
\* NEEDS IMPROVEMENT in every iteration, the loop runs exactly N iterations
\* of Validator then Refiner, ends CAPPED without an exit signal, the run
\* goes on to Release, and refactored_code is the output of the Refiner of
\* iteration N.
C6_CappedAfterN ==
    \A c \in Callers :
        (pc[c] = "running" /\ max_iterations >= 1
           /\ ApprovedIterations(events[c]) = {}) =>
            /\ invoked[c]["ValidatorAgent"] <= max_iterations
            /\ ~ExitSignalled(events[c])
            /\ LoopEnded(c) =>
                /\ pos[c].loop = "CAPPED"
                /\ invoked[c]["ValidatorAgent"] = max_iterations
                /\ invoked[c]["RefinerAgent"] = max_iterations
                /\ CurrentAgent(pos[c]) = "ReleaseAgent"
                /\ state[c]["refactored_code"] =
                       Text(RefinerAgent, max_iterations, <<"code">>)

\* the default maximum of 3: three rounds of NEEDS IMPROVEMENT, loop CAPPED
C6_Witness ==
    \E c \in Callers :
        /\ max_iterations = DefaultMaxIterations
        /\ pc[c] = "running"
        /\ pos[c].loop = "CAPPED"
        /\ ApprovedIterations(events[c]) = {}
        /\ invoked[c]["RefinerAgent"] = DefaultMaxIterations

Least(S) == CHOOSE x \in S : \A y \in S : x <= y

\* C7: when the Validator first approves in iteration k and the Refiner
\* signals exit, the loop is EXITED after exactly k iterations: Validator
\* and Refiner have each run k times, the exit signal is the last event of
\* the loop and the next stage is Release.
C7_ExitAfterK ==
    \A c \in Callers :
        (pc[c] = "running" /\ ExitSignalled(events[c])) =>
            /\ ApprovedIterations(events[c]) # {}
            /\ LET k == Least(ApprovedIterations(events[c]))
               IN /\ pos[c].loop = "EXITED"
                  /\ invoked[c]["ValidatorAgent"] = k
                  /\ invoked[c]["RefinerAgent"] = k
                  /\ (max_iterations >= 1 => k <= max_iterations)
                  /\ events[c][Len(events[c])].escalate
                  /\ CurrentAgent(pos[c]) = "ReleaseAgent"

\* approval in the second iteration: EXITED after two iterations
C7_Witness ==
    \E c \in Callers :
        /\ pc[c] = "running"
        /\ pos[c].loop = "EXITED"
        /\ ApprovedIterations(events[c]) = {2}
        /\ invoked[c]["RefinerAgent"] = 2

\* refactored_code as it stands when the Refiner of iteration k starts
CodeBeforeRefiner(k) ==
    IF k = 1 THEN Text(InitialWriterAgent, 1, <<"code">>)
    ELSE Text(RefinerAgent, k - 1, <<"code">>)

WellOrdered(evs) ==
    \A i \in 1..Len(evs) :
        LET a == evs[i].author
            before == IF i = 1 THEN "none" ELSE evs[i - 1].author
        IN /\ (a = "ReviewerAgent") <=> (i = 1)
           /\ (a = "InitialWriterAgent") <=> (i = 2)
           /\ a = "ValidatorAgent" => before \in {"InitialWriterAgent", "RefinerAgent"}
           /\ a = "RefinerAgent" => before = "ValidatorAgent"
           /\ a = "ReleaseAgent" =>
                 /\ i = Len(evs)
                 /\ before \in {"InitialWriterAgent", "RefinerAgent"}

\* C9: in every run the stages execute in the order Reviewer, InitialWriter,
\* loop of (Validator, Refiner), Release: Reviewer and InitialWriter run at
\* most once and are the first two, each Refiner follows its Validator,
\* Release runs at most once, last, and only when the loop is EXITED or
\* CAPPED.
C9_StageOrder ==
    \A c \in Callers :
        /\ WellOrdered(events[c])
        /\ outcome[c].type = "returned" => WellOrdered(outcome[c].result)
        /\ invoked[c]["ReviewerAgent"] <= 1
        /\ invoked[c]["InitialWriterAgent"] <= 1
        /\ invoked[c]["ReleaseAgent"] <= 1
        /\ invoked[c]["InitialWriterAgent"] <= invoked[c]["ReviewerAgent"]
        /\ invoked[c]["ValidatorAgent"] >= 1 => invoked[c]["InitialWriterAgent"] = 1
        /\ invoked[c]["RefinerAgent"] <= invoked[c]["ValidatorAgent"]
        /\ invoked[c]["ValidatorAgent"] <= invoked[c]["RefinerAgent"] + 1
        /\ invoked[c]["ReleaseAgent"] = 1 => invoked[c]["InitialWriterAgent"] = 1
        /\ (pc[c] = "running" /\ CurrentAgent(pos[c]) = "ReleaseAgent") =>
              /\ LoopEnded(c)
              /\ invoked[c]["RefinerAgent"] = invoked[c]["ValidatorAgent"]
        /\ (pc[c] = "running" /\ LoopEnded(c)) =>
              CurrentAgent(pos[c]) = "ReleaseAgent"

\* a complete run with two loop iterations: seven stage executions in order
C9_Witness ==
    \E c \in Callers :
        /\ pc[c] = "done"
        /\ outcome[c].type = "returned"
        /\ outcome[c].success
        /\ Len(outcome[c].result) = 7
        /\ outcome[c].result[7].author = "ReleaseAgent"

\* after a failure in stage failure[c].at, no later stage was executed
NoLaterStage(c) ==
    LET at == failure[c].at
        n == invoked[c]
    IN /\ at = "ReviewerAgent" =>
            /\ n["InitialWriterAgent"] = 0 /\ n["ValidatorAgent"] = 0
            /\ n["RefinerAgent"] = 0 /\ n["ReleaseAgent"] = 0
       /\ at = "InitialWriterAgent" =>
            /\ n["ValidatorAgent"] = 0
            /\ n["RefinerAgent"] = 0 /\ n["ReleaseAgent"] = 0
       /\ at = "ValidatorAgent" =>
            n["RefinerAgent"] = n["ValidatorAgent"] - 1 /\ n["ReleaseAgent"] = 0
       /\ at = "RefinerAgent" =>
            n["RefinerAgent"] = n["ValidatorAgent"] /\ n["ReleaseAgent"] = 0
       /\ at = "ReleaseAgent" => n["ReleaseAgent"] = 1

StageFailed(c) == Failed(c) /\ failure[c].at \in AgentNames

\* C10 as stated: when a stage fails, no later stage of the run executes
\* and the run yields success = false with the failure's message; a
\* Reviewer failing with NotFound gives error "NotFound" and no Release.
C10_FailureRecordAlways ==
    \A c \in Callers :
        StageFailed(c) =>
            /\ NoLaterStage(c)
            /\ outcome[c] = Failure(args[c], failure[c].error)

\* C10 (amended): when a stage fails, no later stage of the run executes;
\* when the failure is an Exception the run yields success = false with the
\* failure's message; a Reviewer failing with NotFound gives an error text
\* "NotFound" and Release is never invoked.
C10_AbortOnFailure ==
    \A c \in Callers :
        StageFailed(c) =>
            /\ NoLaterStage(c)
            /\ failure[c].error.kind = "Exception" =>
                  outcome[c] = Failure(args[c], failure[c].error)
            /\ failure[c] = [at |-> "ReviewerAgent", error |-> NotFound] =>
                  /\ outcome[c].type = "returned"
                  /\ ~outcome[c].success
                  /\ outcome[c].error = "NotFound"
                  /\ invoked[c]["ReleaseAgent"] = 0

\* the Reviewer failed with NotFound: failure record, Release not invoked
C10_Witness ==
    \E c \in Callers :
        /\ pc[c] = "done"
        /\ failure[c] = [at |-> "ReviewerAgent", error |-> NotFound]
        /\ outcome[c].error = "NotFound"
        /\ ~outcome[c].success
        /\ invoked[c]["ReleaseAgent"] = 0


\* the run of c has not written yet: no stage has ended, no tool has run
NothingWritten(c) == events[c] = <<>> /\ turn[c] = NoTurn

\* the keys written so far in the run of c, by a stage's output_key or by a
\* tool call of a stage: the session starts empty and no key is removed
WrittenInRun(c) == DOMAIN state[c]

\* C11: in every run, whatever the stage oracles do, every key the stage
\* that is about to run reads has been written earlier in the same run by a
\* preceding stage or tool call, and the blackboard holds nothing but what
\* the run has written (no seeded keys)
C11_ReadsWritten ==
    \A c \in Callers :
        pc[c] = "running" =>
            /\ NothingWritten(c) => state[c] = EmptyState
            /\ \A a \in Agents :
                   CurrentAgent(pos[c]) = a.name => a.reads \subseteq WrittenInRun(c)


\* equality of two returned values of any shape (a list is not a mapping)
SameValue(a, b) == ToString(a) = ToString(b)

\* C12: a successful run returns success = true with result equal to the
\* final blackboard snapshot of that run, whose release_status is the value
\* the Release stage wrote
C12_ResultIsSnapshot ==
    \A c \in Callers :
        outcome[c].type = "returned" /\ outcome[c].success =>
            LET snapshot == Merge(save_context(outcome[c].class_name,
                                               outcome[c].method_name),
                                  StateDeltas(outcome[c].result))
            IN /\ SameValue(outcome[c].result, snapshot)
               /\ "release_status" \in DOMAIN snapshot
               /\ snapshot["release_status"].by = "ReleaseAgent"


\* ---------------------------------------------- generate_compilation_script
\* a call of generate_compilation_script has returned
ScriptReturned ==
    tool_call.tool = "generate_compilation_script" /\ tool_result.returned

\* s.split(sep): the parts of s between the occurrences of sep
SplitOn(s, sep) ==
    LET RECURSIVE Scan(_, _, _)
        Scan(i, part, parts) ==
            IF i > Len(s) THEN Append(parts, part)
            ELSE IF s[i] = sep THEN Scan(i + 1, <<>>, Append(parts, part))
            ELSE Scan(i + 1, Append(part, s[i]), parts)
    IN Scan(1, <<>>, <<>>)

\* a literal without its enclosing quotes
StripQuotes(literal) ==
    IF Len(literal) >= 2 /\ Head(literal) = Quote /\ literal[Len(literal)] = Quote
    THEN SubSeq(literal, 2, Len(literal) - 1)
    ELSE literal

\* every doubled quote replaced by one quote, from left to right
Undouble(s) ==
    LET RECURSIVE Un(_)
        Un(i) == IF i > Len(s) THEN <<>>
                 ELSE IF s[i] = Quote /\ i < Len(s) /\ s[i + 1] = Quote
                 THEN <<Quote>> \o Un(i + 2)
                 ELSE <<s[i]>> \o Un(i + 1)
    IN Un(1)

\* the argument of compile: in a script, between "C compile: (" and ")"
ArgumentOf(class_name, script) ==
    SubSeq(script, Len(class_name) + 2, Len(script) - 1)

\* the decoding: split the argument on the separator, strip the enclosing
\* quotes of each literal, un-double its quotes
Decode(class_name, script) ==
    LET literals == SplitOn(ArgumentOf(class_name, script), Separator)
    IN [i \in 1..Len(literals) |-> Undouble(StripQuotes(literals[i]))]

HasSeparator(line) == \E i \in 1..Len(line) : line[i] = Separator

SeparatorFree(code) ==
    \A i \in 1..Len(splitlines(code)) : ~HasSeparator(splitlines(code)[i])

\* C13 as stated: for every class name and every non-empty multi-line code,
\* decoding the script yields exactly the lines of code, in order
C13_RoundTrip ==
    ScriptReturned /\ Len(splitlines(tool_call.code)) >= 2 =>
        Decode(tool_call.class_name, tool_result.value) = splitlines(tool_call.code)

\* C13 amended: for every class name and every non-empty code none of whose
\* lines contains the separator text, decoding the script yields exactly the
\* lines of code, in order
C13_RoundTripSeparatorFree ==
    ScriptReturned /\ tool_call.code # <<>> /\ SeparatorFree(tool_call.code) =>
        Decode(tool_call.class_name, tool_result.value) = splitlines(tool_call.code)

\* a script of two lines, one of them with a quote, has been generated
C13_Witness ==
    /\ ScriptReturned
    /\ SeparatorFree(tool_call.code)
    /\ Len(splitlines(tool_call.code)) = 2
    /\ \E i \in 1..2 : splitlines(tool_call.code)[i] = <<Quote>>
    /\ tool_call.class_name # <<>>


\* C14: for every class_name and every code the returned script is a single
\* line: it contains no line-terminator character
C14_SingleLine ==
    ScriptReturned =>
        \A i \in 1..Len(tool_result.value) :
            tool_result.value[i] \notin LineTerminators

\* the number of occurrences of the piece x in s
Count(s, x) == Cardinality({i \in 1..Len(s) : s[i] = x})

\* the length of the literal of a line: the line, one more for each of its
\* quotes, and the two enclosing quotes
LiteralLen(line) == Len(line) + Count(line, Quote) + 2

\* where the literal of line i starts in the script of class_name and lines
LiteralStart(class_name, lines, i) ==
    LET RECURSIVE Start(_)
        Start(k) == IF k = 1 THEN Len(class_name) + 2
                    ELSE Start(k - 1) + LiteralLen(lines[k - 1]) + 1
    IN Start(i)

\* the literal of line i as it stands in the script
LiteralAt(script, class_name, lines, i) ==
    SubSeq(script, LiteralStart(class_name, lines, i),
           LiteralStart(class_name, lines, i) + LiteralLen(lines[i]) - 1)

\* the script is "C compile: (" + the literals of the lines, each in
\* quotes, with one separator between neighbours + ")"
WellFormed(script, class_name, lines) ==
    LET n == Len(lines)
        end == LiteralStart(class_name, lines, n) + LiteralLen(lines[n])
    IN /\ Len(script) = end
       /\ SubSeq(script, 1, Len(class_name)) = class_name
       /\ script[Len(class_name) + 1] = " compile: ("
       /\ script[end] = ")"
       /\ \A i \in 1..n :
              LET literal == LiteralAt(script, class_name, lines, i)
              IN /\ Head(literal) = Quote
                 /\ literal[Len(literal)] = Quote
                 /\ Undouble(SubSeq(literal, 2, Len(literal) - 1)) = lines[i]
       /\ \A i \in 1..(n - 1) :
              script[LiteralStart(class_name, lines, i + 1) - 1] = Separator

Unquoted(line) == SelectSeq(line, LAMBDA ch : ch # Quote)

\* C16: in the script every quote of an input line appears doubled inside
\* that line's literal and no other character of the line is changed; a line
\* that is one quote yields a literal whose content is exactly two quotes
C16_QuotesDoubled ==
    ScriptReturned /\ tool_call.code # <<>> =>
        LET lines == splitlines(tool_call.code)
        IN \A i \in 1..Len(lines) :
               LET literal == LiteralAt(tool_result.value, tool_call.class_name,
                                        lines, i)
                   content == SubSeq(literal, 2, Len(literal) - 1)
               IN /\ Undouble(content) = lines[i]
                  /\ Count(content, Quote) = 2 * Count(lines[i], Quote)
                  /\ Unquoted(content) = Unquoted(lines[i])
                  /\ lines[i] = <<Quote>> => content = <<Quote, Quote>>

\* the script of a code with a line that is one quote has been generated
C16_Witness ==
    /\ ScriptReturned
    /\ splitlines(tool_call.code) = <<<<Quote>>, <<"x">>>>
    /\ tool_result.value = tool_call.class_name
           \o <<" compile: (", Quote, Quote, Quote, Quote, Separator,
                Quote, "x", Quote, ")">>

\* C17: for every class_name, generate_compilation_script(class_name, "")
\* returns the empty string: no compile expression is produced
C17_EmptyCode ==
    ScriptReturned /\ tool_call.code = <<>> => tool_result.value = <<>>

\* the function has returned for empty code and a non-empty class name
C17_Witness ==
    /\ ScriptReturned
    /\ tool_call.code = <<>>
    /\ tool_call.class_name = <<"C">>
    /\ tool_result.value = <<>>


\* ------------------------------------ exit_validation_loop and save_context
ExitReturned == tool_call.tool = "exit_validation_loop" /\ tool_result.returned

\* C18 as stated: a call of exit_validation_loop from a context that is not
\* inside the validation loop is a no-op: escalate is left unchanged and the
\* call returns an explanatory status
C18_NoOpOutsideLoop ==
    ExitReturned /\ ~tool_call.context.in_loop =>
        /\ tool_context.escalate = tool_call.context.escalate
        /\ tool_result.value.status = "error"

\* C18 amended: a call of exit_validation_loop without a usable tool_context
\* is a no-op that returns the status "error"; with a usable tool_context,
\* inside the validation loop or not, it sets escalate and returns the
\* status "approved"; nothing but escalate is changed
C18_NoOpWithoutContext ==
    ExitReturned =>
        /\ ~tool_call.context.usable =>
               /\ tool_context = tool_call.context
               /\ tool_result.value.status = "error"
        /\ tool_call.context.usable =>
               /\ tool_context = [tool_call.context EXCEPT !.escalate = TRUE]
               /\ tool_result.value.status = "approved"

\* the exit signal has been called without a usable tool_context, outside
\* the loop, with escalate not set
C18_Witness ==
    /\ ExitReturned
    /\ ~tool_call.context.usable
    /\ ~tool_call.context.in_loop
    /\ ~tool_context.escalate
    /\ tool_result.value.status = "error"

SaveReturned == tool_call.tool = "save_context" /\ tool_result.returned

IdentityKeys == {"class_name", "method_name"}

\* C19: save_context(ctx, c, m) with a usable session sets class_name = c
\* and method_name = m together and changes no other key; with the session
\* missing it writes nothing, leaves the blackboard unchanged and returns an
\* error text
C19_SaveContextFrame ==
    tool_call.tool = "save_context" =>
        LET before == tool_call.context.state
            after == tool_context.state
        IN /\ IdentityKeys \subseteq DOMAIN after =>
                  (after["class_name"] = tool_call.class_name
                      <=> after["method_name"] = tool_call.method_name)
           /\ SaveReturned /\ tool_call.context.usable =>
                  /\ DOMAIN after = DOMAIN before \cup IdentityKeys
                  /\ after["class_name"] = tool_call.class_name
                  /\ after["method_name"] = tool_call.method_name
                  /\ \A k \in DOMAIN before \ IdentityKeys : after[k] = before[k]
                  /\ tool_context = [tool_call.context EXCEPT !.state = after]
                  /\ Head(tool_result.value) = "Context saved. Class: "
           /\ SaveReturned /\ ~tool_call.context.usable =>
                  /\ tool_context = tool_call.context
                  /\ tool_result.value =
                         <<"Error: Could not save context (missing session).">>

\* save_context has overwritten an earlier target and kept the review
C19_Witness ==
    /\ SaveReturned
    /\ tool_call.context.usable
    /\ DOMAIN tool_call.context.state = IdentityKeys \cup {"code_review"}
    /\ tool_call.context.state["class_name"] = <<"old">>
    /\ tool_context.state["class_name"] = <<"Calculator">>
    /\ tool_context.state["method_name"] = <<"sum:with:">>
    /\ tool_context.state["code_review"] = <<"old">>


\* ------------------------------------------------- construct once, reuse
\* caller c passes the acquisition of the lock in this step
Acquires(c) ==
    /\ pc[c] \in {"idle", "waiting"}
    /\ pc'[c] \in {"running", "done"}
    /\ failure'[c].at # "acquire"

\* this step is a call of get_pipeline: by a caller of refactor_method that
\* has just taken the lock, or from outside, touching nothing but the
\* service's toolset and pipeline
CallsGetPipeline ==
    \/ \E c \in Callers : Acquires(c)
    \/ UNCHANGED <<max_iterations, lockVars, pc, args, runVars, failure, outcome>>

\* the toolset and the pipeline are built once, the pipeline after the
\* toolset, and a run under way has both
BuiltOnce ==
    /\ toolsetBuilds <= 1
    /\ pipelineBuilds <= 1
    /\ ToolsetMissing <=> toolsetBuilds = 0
    /\ PipelineMissing <=> pipelineBuilds = 0
    /\ pipelineBuilds <= toolsetBuilds
    /\ \A c \in Callers :
           pc[c] = "running" => ~PipelineMissing /\ ~ToolsetMissing

\* C20: across the runs on one service, failed runs included, the McpToolset
\* is constructed at most once and not before the first call of
\* get_pipeline (it is built in a step that calls get_pipeline and in no
\* other); the pipeline is built at most once, after the toolset; and every
\* run under way runs the one pipeline with the one toolset
C20_ConstructOnce ==
    /\ []BuiltOnce
    /\ [][(toolsetBuilds' # toolsetBuilds \/ pipelineBuilds' # pipelineBuilds) =>
              /\ CallsGetPipeline
              /\ toolsetBuilds' # toolsetBuilds => toolsetBuilds = 0 /\ pipelineBuilds = 0
              /\ pipelineBuilds' # pipelineBuilds => pipelineBuilds = 0]_vars

\* a run that failed while the pipeline was built left the toolset behind,
\* and a later run is under way with it
C20_Witness ==
    \E c, d \in Callers :
        /\ pc[c] = "done"
        /\ failure[c].at = "get_pipeline"
        /\ pc[d] = "running"
        /\ invoked[d]["ReviewerAgent"] = 1
        /\ toolsetBuilds = 1
        /\ pipelineBuilds = 1


\* ------------------------------------------------- the gateway and the lock
\* the agents that are given the McpToolset
ToolsetAgents == {a \in Agents : "toolset" \in a.tools}

\* caller c runs, in this step, an agent that can call the gateway
UsesGateway(c) ==
    /\ pc[c] = "running"
    /\ \E a \in ToolsetAgents : CurrentAgent(pos[c]) = a.name
    /\ \/ invoked'[c] # invoked[c]
       \/ events'[c] # events[c]
       \/ pc'[c] # pc[c]

C21_Witness ==
    \E c, d \in Callers :
        /\ pc[c] = "done" /\ invoked[c]["ReleaseAgent"] = 1
        /\ pc[d] = "running" /\ invoked[d]["ValidatorAgent"] = 1
        /\ locked
        /\ toolsetBuilds = 1


\* ------------------------------------------------- one blackboard per run
\* C22: every run starts with an empty blackboard of its own: what a stage
\* of a run can read is what that same run has written (its own target,
\* saved by save_context, and the texts its own events saved), so that
\* nothing of an earlier run, successful or failed, is readable
C22_FreshBlackboard ==
    \A c \in Callers :
        pc[c] = "running" =>
            /\ NothingWritten(c) => state[c] = EmptyState
            /\ \A k \in DOMAIN state[c] :
                   IF k \in {"class_name", "method_name"}
                   THEN state[c][k] = save_context(args[c][1], args[c][2])[k]
                   ELSE /\ k \in DOMAIN StateDeltas(events[c])
                        /\ state[c][k] = StateDeltas(events[c])[k]

\* a run has failed after its first stages had written, and a later run
\* has only its own first writes
C22_Witness ==
    \E c, d \in Callers :
        /\ pc[d] = "done"
        /\ failure[d].at = "ValidatorAgent"
        /\ pc[c] = "running"
        /\ Len(events[c]) = 1
        /\ DOMAIN state[c] = {"class_name", "method_name", "code_review"}


\* ------------------------------------------------- what a stage writes
\* the events of the run of c: those collected so far, or those returned
EventsOf(c) ==
    IF outcome[c].type = "returned" /\ outcome[c].success
    THEN outcome[c].result ELSE events[c]

\* the output key of each stage
OutputKeyOf ==
    [a \in AgentNames |->
        CASE a = "ReviewerAgent" -> "code_review"
          [] a = "InitialWriterAgent" -> "refactored_code"
          [] a = "ValidatorAgent" -> "validation_result"
          [] a = "RefinerAgent" -> "refactored_code"
          [] a = "ReleaseAgent" -> "release_status"]

\* the keys of the blackboard of c that this step writes
ChangedKeys(c) ==
    {k \in DOMAIN state'[c] : k \notin DOMAIN state[c] \/ state'[c][k] # state[c][k]}

\* this step is a step of the stage under way in the run of c, after which
\* the run goes on
StageStep(c) ==
    /\ pc[c] = "running"
    /\ pc'[c] = "running"
    /\ state'[c] # state[c] \/ events'[c] # events[c] \/ turn'[c] # turn[c]

\* C23 as stated: the only effect of a stage on the blackboard is one write
\* to its own output key
C23_OneWriteOwnKey ==
    /\ [](\A c \in Callers :
             \A i \in 1..Len(EventsOf(c)) :
                 DOMAIN EventsOf(c)[i].state_delta
                     = {OutputKeyOf[EventsOf(c)[i].author]})
    /\ [][\A c \in Callers :
              StageStep(c) =>
                  ChangedKeys(c) \subseteq {OutputKeyOf[CurrentAgent(pos[c])]}]_vars

\* what the events and the blackboard of a run hold of each stage
WritesOwnKeys ==
    \A c \in Callers :
        /\ \A i \in 1..Len(EventsOf(c)) :
               LET e == EventsOf(c)[i]
                   own == {OutputKeyOf[e.author]}
               IN /\ DOMAIN e.state_delta \subseteq own
                  /\ \A k \in DOMAIN e.state_delta :
                         /\ e.state_delta[k].by = e.author
                         /\ e.state_delta[k].body # NoText
        /\ pc[c] = "running" =>
               /\ IdentityKeys \cap DOMAIN state[c] \in {{}, IdentityKeys}
               /\ "refactored_code" \in DOMAIN state[c] =>
                      state[c]["refactored_code"].by
                          \in {"InitialWriterAgent", "RefinerAgent"}

\* C23 amended: a stage writes no key but its own output key, and that one
\* only when it ends with a text; the Reviewer alone writes, besides,
\* class_name and method_name, both or none, through save_context; the
\* blackboard changes by these writes only, so that refactored_code is what
\* InitialWriter or Refiner wrote last
C23_WritesOwnKeys ==
    /\ []WritesOwnKeys
    /\ [][\A c \in Callers :
              StageStep(c) =>
                  LET a == CurrentAgent(pos[c]) IN
                      /\ ChangedKeys(c) \subseteq
                             {OutputKeyOf[a]} \cup
                             (IF a = "ReviewerAgent" THEN IdentityKeys ELSE {})
                      /\ ChangedKeys(c) \cap IdentityKeys \in {{}, IdentityKeys}]_vars

\* the Reviewer has written its three keys, the Validator has approved and
\* the Refiner has ended without a text: the code is the InitialWriter's
C23_Witness ==
    \E c \in Callers :
        /\ pc[c] = "running"
        /\ Len(events[c]) = 4
        /\ DOMAIN events[c][1].state_delta = {"code_review"}
        /\ IdentityKeys \subseteq DOMAIN state[c]
        /\ DOMAIN events[c][3].state_delta = {"validation_result"}
        /\ events[c][4].author = "RefinerAgent"
        /\ events[c][4].state_delta = EmptyState
        /\ state[c]["refactored_code"].by = "InitialWriterAgent"


\* ------------------------------------------------- the /refactor handler
\* C24: the handler answers 503 exactly when is_busy() was true at its
\* check and 500 only after a run that returned success = false; a request
\* answered as busy never started a run, and a failed run is never reported
\* as busy
C24_BusyOrFailure ==
    \A c \in Callers :
        /\ request[c].status = HTTP_503_SERVICE_UNAVAILABLE
               <=> request[c].checked /\ request[c].busy
        /\ request[c].status = HTTP_500_INTERNAL_SERVER_ERROR =>
               outcome[c].type = "returned" /\ ~outcome[c].success
        /\ request[c].status = HTTP_503_SERVICE_UNAVAILABLE =>
               /\ pc[c] = "rejected"
               /\ outcome[c] = NoOutcome
               /\ args[c] = NoTarget
               /\ invoked[c] = NoInvocations
        /\ outcome[c].type = "returned" /\ ~outcome[c].success =>
               request[c].status = HTTP_500_INTERNAL_SERVER_ERROR

\* one request has been answered 500 after its run failed in a stage, and
\* a request that came during that run has been answered 503
C24_Witness ==
    \E c, d \in Callers :
        /\ request[c].status = HTTP_500_INTERNAL_SERVER_ERROR
        /\ failure[c].at = "ValidatorAgent"
        /\ request[d].status = HTTP_503_SERVICE_UNAVAILABLE
        /\ request[d].busy

\* two requests have passed the busy check with is_busy() = false, and the
\* second waits for the lock that the first holds
BusyCheckRace ==
    \E c, d \in Callers :
        /\ request[c].checked /\ ~request[c].busy
        /\ request[d].checked /\ ~request[d].busy
        /\ pc[c] = "running"
        /\ pc[d] = "waiting"

\* C26 as stated: there is an interleaving of two requests that ends in the
\* race
C26_RaceReachable == <>BusyCheckRace

\* C26 amended: no interleaving of requests ends in the race: a request
\* that observes is_busy() = false takes the lock in the same step, no
\* request ever waits for the lock, and a request that comes during a run
\* is rejected as busy
C26_NoRace ==
    /\ ~BusyCheckRace
    /\ \A c \in Callers :
           /\ pc[c] # "waiting"
           /\ waiters = <<>>
           /\ request[c].checked /\ ~request[c].busy =>
                  pc[c] \in {"running", "done"}

\* a request has made its busy check during the run of another and has
\* been rejected
C26_Witness ==
    \E c, d \in Callers :
        /\ pc[c] = "running"
        /\ invoked[c]["ReviewerAgent"] = 1
        /\ request[c].checked /\ ~request[c].busy
        /\ pc[d] = "rejected"
        /\ request[d].checked /\ request[d].busy


\* ------------------------------------------------- waiting for the lock
\* caller c has taken the lock in its call: it is in its run, or its call
\* has ended otherwise than by a cancellation in acquire()
HasAcquired(c) ==
    \/ pc[c] = "running"
    \/ pc[c] = "done" /\ failure[c].at # "acquire"

\* a caller that does not find the lock free waits in its queue
WaitsInsteadOfFailing ==
    [][\A c \in Callers :
          pc[c] = "idle" /\ pc'[c] # "idle" /\ ~CanAcquireNow =>
              /\ pc'[c] = "waiting"
              /\ outcome'[c] = NoOutcome
              /\ c \in {waiters'[i] : i \in 1..Len(waiters')}]_vars

C27_OnlyRefinerExits ==
    \A c \in Callers :
        /\ \A i \in 1..Len(EventsOf(c)) :
               EventsOf(c)[i].escalate =>
                   /\ EventsOf(c)[i].author = "RefinerAgent"
                   /\ i > 1
                   /\ EventsOf(c)[i - 1].author = "ValidatorAgent"
                   /\ ~EventsOf(c)[i - 1].escalate
        /\ pc[c] = "running" =>
               /\ pos[c].loop = "EXITED" =>
                      /\ invoked[c]["ValidatorAgent"] >= 1
                      /\ invoked[c]["RefinerAgent"] = invoked[c]["ValidatorAgent"]
                      /\ ExitSignalled(events[c])
               /\ (events[c] # <<>>
                     /\ events[c][Len(events[c])].author = "ValidatorAgent") =>
                      /\ pos[c].loop = "ITERATING"
                      /\ CurrentAgent(pos[c]) = "RefinerAgent"

\* the loop has been exited by the Refiner of the second iteration
C27_Witness ==
    \E c \in Callers :
        /\ pc[c] = "running"
        /\ pos[c].loop = "EXITED"
        /\ invoked[c]["ValidatorAgent"] = 2
        /\ invoked[c]["RefinerAgent"] = 2
        /\ events[c][Len(events[c])].author = "RefinerAgent"
        /\ events[c][Len(events[c])].escalate


\* the positions, in the record of the client's calls, of the requests sent
Posts == {i \in 1..Len(client.calls) : client.calls[i].op = "post"}

\* the number of requests sent before the one at position i: its attempt
AttemptOf(i) == Cardinality({j \in Posts : j < i})

\* the document a body's text stands for, if it is JSON
IsJsonText(body) == body \in {"{\"result\": \"a\"}", "{\"result\": \"b\"}"}

DocumentOf(body) ==
    IF body = "{\"result\": \"a\"}" THEN [result |-> "a"]
    ELSE IF body = "{\"result\": \"b\"}" THEN [result |-> "b"]
    ELSE [result |-> ""]

Finished == client.pc \in {"returned", "raised"}

\* the request at position i of the record of calls was answered with status
AnsweredWith(i, status) ==
    /\ client.calls[i].response.kind = "Response"
    /\ client.calls[i].response.status_code = status

\* at most max_retries requests; a 503 is followed at once by a sleep of
\* 2 ** attempt seconds; an error status other than 503 is the last call and
\* HTTPError is raised; the call returns only on a 200; a finished call whose
\* max_retries requests were all answered 503 has raised the final Exception
RetryLog ==
    LET calls == client.calls IN
        /\ Cardinality(Posts) <= client.max_retries
        /\ \A i \in Posts :
               /\ AnsweredWith(i, 503) =>
                      /\ i < Len(calls)
                      /\ calls[i + 1].op = "sleep"
                      /\ calls[i + 1].seconds = 2 ^ AttemptOf(i)
               /\ (\E st \in (400..599) \ {503} : AnsweredWith(i, st)) =>
                      /\ i = Len(calls)
                      /\ client.pc = "raised"
                      /\ client.raised = "HTTPError"
        /\ client.pc = "returned" =>
               /\ calls # <<>>
               /\ AnsweredWith(Len(calls), 200)
        /\ (/\ Finished
            /\ Cardinality(Posts) = client.max_retries
            /\ \A i \in Posts : AnsweredWith(i, 503)) =>
               /\ client.pc = "raised"
               /\ client.raised = "Exception"

\* a 200 response is the last call, and the call has returned its body
FirstOkReturned ==
    \A i \in Posts :
        AnsweredWith(i, 200) =>
            /\ i = Len(client.calls)
            /\ client.pc = "returned"
            /\ client.result = DocumentOf(client.calls[i].response.body)

\* a 200 response is the last call: the call has returned the document of
\* its body, or has raised the error of response.json() for a body that is
\* not JSON
FirstOkEndsCall ==
    \A i \in Posts :
        AnsweredWith(i, 200) =>
            /\ i = Len(client.calls)
            /\ IF IsJsonText(client.calls[i].response.body)
               THEN /\ client.pc = "returned"
                    /\ client.result = DocumentOf(client.calls[i].response.body)
               ELSE /\ client.pc = "raised"
                    /\ client.raised = "JSONDecodeError"

\* C28 as stated: refactor_with_retry ends, whatever the server answers; it
\* sends at most max_retries requests; the first 200 response ends the call,
\* which returns its body, and no request follows it; a 503 is followed by a
\* sleep of 2 ** attempt seconds before anything else; after max_retries
\* requests that were all answered with 503 the call raises; an error
\* status other than 503 is raised at once, with no request after it
C28_RetryTerminates == [](RetryLog /\ FirstOkReturned) /\ <>Finished

\* C28, amended: as above, but the first 200 response ends the call by
\* returning the document of its body when the body is JSON and by raising
\* the decoding error when it is not; in both cases no request follows it
C28_RetryTerminatesJsonBody == [](RetryLog /\ FirstOkEndsCall) /\ <>Finished

\* a call that was answered busy, slept one second, tried again, and
\* returned the body of the 200 response it then got
C28_Witness ==
    /\ client.pc = "returned"
    /\ Len(client.calls) = 3
    /\ client.calls[1].response.status_code = 503
    /\ client.calls[2].op = "sleep"
    /\ client.calls[2].seconds = 1
    /\ client.result = [result |-> "b"]

====
